---- MODULE Spec2Model ----
(***************************************************************************)
(* Vision-Based-Desktop-Automation: the icon detector (src/src/            *)
(* icon_detector.py) and the post-processing loop that drives it           *)
(* (src/src/main.py).                                                      *)
(*                                                                         *)
(* Confidences and scores are floats in the source; here they are integer  *)
(* thousandths (0.7 is 700), which is exact for every value the model      *)
(* draws.  A Python None is the value None below.  A text is a sequence of *)
(* one-character strings.                                                  *)
(***************************************************************************)
EXTENDS Integers, Sequences, FiniteSets, TLC

\* ------------------------------------------------------------------------
\* Program constants
\* ------------------------------------------------------------------------

\* Python's None, a value no coordinate or confidence takes.
None == -100000

\* TEMPLATE_MATCH_THRESHOLD = 0.7
TEMPLATE_MATCH_THRESHOLD == 700

\* "assuming 1920x1080 resolution"
BoundsX == 1920

BoundsY == 1080

\* scales = [0.8, 1.0, 1.2, 1.5], in tenths
scales == <<8, 10, 12, 15>>

\* target = "notepad"
target == <<"n", "o", "t", "e", "p", "a", "d">>

\* ------------------------------------------------------------------------
\* Bounds of the model
\* ------------------------------------------------------------------------

\* The largest max_retries a direct caller passes (main passes 3).
MaxRetriesArg == 3

\* The number of valid posts the main loop processes.
NumPosts == 2

\* ------------------------------------------------------------------------
\* Python helpers
\* ------------------------------------------------------------------------

Max(a, b) == IF a >= b THEN a ELSE b

Min(a, b) == IF a <= b THEN a ELSE b

\* int(q / d) for d > 0: truncation toward zero.
TruncDiv(q, d) == IF q >= 0 THEN q \div d ELSE 0 - ((0 - q) \div d)

\* str.isspace for one character
IsSpace(c) == c \in {" "}

\* The characters the texts of this model are written in
LowerLetters == {"n", "o", "t", "e", "p", "a", "d", "m", "y", "l", "c", "s", "x"}

UpperLetters == {"N", "O", "T", "E", "P", "A", "D", "M", "C"}

Digits == {"2"}

\* str.isalnum for one character
IsAlnum(c) == c \in LowerLetters \cup UpperLetters \cup Digits

\* str.lower for one character
LowerChar(c) ==
    CASE c = "N" -> "n"
      [] c = "O" -> "o"
      [] c = "T" -> "t"
      [] c = "E" -> "e"
      [] c = "P" -> "p"
      [] c = "A" -> "a"
      [] c = "D" -> "d"
      [] c = "M" -> "m"
      [] c = "C" -> "c"
      [] OTHER -> c

Lower(s) == [k \in 1..Len(s) |-> LowerChar(s[k])]

RECURSIVE LStrip(_)
LStrip(s) == IF s # <<>> /\ IsSpace(Head(s)) THEN LStrip(Tail(s)) ELSE s

RECURSIVE RStrip(_)
RStrip(s) ==
    IF s # <<>> /\ IsSpace(s[Len(s)]) THEN RStrip(SubSeq(s, 1, Len(s) - 1)) ELSE s

\* str.strip
Strip(s) == RStrip(LStrip(s))

\* str.startswith
StartsWith(s, p) == Len(s) >= Len(p) /\ SubSeq(s, 1, Len(p)) = p

\* The 1-based positions at which p occurs in s.
Occurrences(s, p) ==
    {k \in 1..(Len(s) - Len(p) + 1) : SubSeq(s, k, k + Len(p) - 1) = p}

\* str.find, 0-based; -1 when p does not occur.
Find(s, p) ==
    IF Occurrences(s, p) = {} THEN -1
    ELSE (CHOOSE k \in Occurrences(s, p) : \A j \in Occurrences(s, p) : k <= j) - 1

\* ------------------------------------------------------------------------
\* IconDetector.validate_icon_detection
\* ------------------------------------------------------------------------

\* Mutant: the upper bounds are exclusive.
validate_exclusive_bounds(x, y, confidence, threshold) ==
    IF x = None \/ y = None THEN FALSE
    ELSE IF confidence < threshold THEN FALSE
    ELSE IF x < 0 \/ x >= BoundsX \/ y < 0 \/ y >= BoundsY THEN FALSE
    ELSE TRUE

\* Mutant: negative coordinates are not rejected.
validate_no_lower_bounds(x, y, confidence, threshold) ==
    IF x = None \/ y = None THEN FALSE
    ELSE IF confidence < threshold THEN FALSE
    ELSE IF x > BoundsX \/ y > BoundsY THEN FALSE
    ELSE TRUE

validate_icon_detection(x, y, confidence, threshold) ==
    IF x = None \/ y = None THEN FALSE
    ELSE IF confidence < threshold THEN FALSE
    ELSE IF x < 0 \/ x > BoundsX \/ y < 0 \/ y > BoundsY THEN FALSE
    ELSE TRUE

\* ------------------------------------------------------------------------
\* IconDetector._calculate_similarity_to_notepad (thousandths)
\* ------------------------------------------------------------------------

\* Mutant: the word-boundary test looks at the last occurrence (rfind).
_calculate_similarity_last_occurrence(text) ==
    LET text_lower == Lower(Strip(text))
        extra_chars == SubSeq(text_lower, Len(target) + 1, Len(text_lower))
        places == Occurrences(text_lower, target)
        idx == IF places = {} THEN 0 - 1
               ELSE (CHOOSE i \in places : \A j \in places : j <= i) - 1
        is_word_start == idx = 0 \/ ~IsAlnum(text_lower[idx])
        is_word_end == \/ idx + Len(target) >= Len(text_lower)
                       \/ ~IsAlnum(text_lower[idx + Len(target) + 1])
    IN  IF text_lower = target THEN 1000
        ELSE IF /\ StartsWith(text_lower, target)
                /\ Len(text_lower) > Len(target)
                /\ Strip(extra_chars) # <<>>
                /\ \E k \in 1..Len(extra_chars) : IsAlnum(extra_chars[k])
        THEN 100
        ELSE IF Occurrences(text_lower, target) # {}
        THEN (IF is_word_start /\ is_word_end THEN 500 ELSE 200)
        ELSE 0

\* Mutant: a complete word inside other text scores 0.9.
_calculate_similarity_word_high(text) ==
    LET text_lower == Lower(Strip(text))
        extra_chars == SubSeq(text_lower, Len(target) + 1, Len(text_lower))
        idx == Find(text_lower, target)
        is_word_start == idx = 0 \/ ~IsAlnum(text_lower[idx])
        is_word_end == \/ idx + Len(target) >= Len(text_lower)
                       \/ ~IsAlnum(text_lower[idx + Len(target) + 1])
    IN  IF text_lower = target THEN 1000
        ELSE IF /\ StartsWith(text_lower, target)
                /\ Len(text_lower) > Len(target)
                /\ Strip(extra_chars) # <<>>
                /\ \E k \in 1..Len(extra_chars) : IsAlnum(extra_chars[k])
        THEN 100
        ELSE IF Occurrences(text_lower, target) # {}
        THEN (IF is_word_start /\ is_word_end THEN 900 ELSE 200)
        ELSE 0

\* Mutant: only the character after the occurrence decides whether it is a
\* complete word.
_calculate_similarity_end_only(text) ==
    LET text_lower == Lower(Strip(text))
        extra_chars == SubSeq(text_lower, Len(target) + 1, Len(text_lower))
        idx == Find(text_lower, target)
        is_word_end == \/ idx + Len(target) >= Len(text_lower)
                       \/ ~IsAlnum(text_lower[idx + Len(target) + 1])
    IN  IF text_lower = target THEN 1000
        ELSE IF /\ StartsWith(text_lower, target)
                /\ Len(text_lower) > Len(target)
                /\ Strip(extra_chars) # <<>>
                /\ \E k \in 1..Len(extra_chars) : IsAlnum(extra_chars[k])
        THEN 100
        ELSE IF Occurrences(text_lower, target) # {}
        THEN (IF is_word_end THEN 500 ELSE 200)
        ELSE 0

\* Mutant: every longer token that starts with "notepad" gets the low score,
\* whether or not an alphanumeric character follows.
_calculate_similarity_any_suffix(text) ==
    LET text_lower == Lower(Strip(text))
        extra_chars == SubSeq(text_lower, Len(target) + 1, Len(text_lower))
        idx == Find(text_lower, target)
        is_word_start == idx = 0 \/ ~IsAlnum(text_lower[idx])
        is_word_end == \/ idx + Len(target) >= Len(text_lower)
                       \/ ~IsAlnum(text_lower[idx + Len(target) + 1])
    IN  IF text_lower = target THEN 1000
        ELSE IF /\ StartsWith(text_lower, target)
                /\ Len(text_lower) > Len(target)
                /\ Strip(extra_chars) # <<>>
        THEN 100
        ELSE IF Occurrences(text_lower, target) # {}
        THEN (IF is_word_start /\ is_word_end THEN 500 ELSE 200)
        ELSE 0

\* Mutant: the comparison is case-sensitive (no lower()).
_calculate_similarity_case_sensitive(text) ==
    LET text_lower == Strip(text)
        extra_chars == SubSeq(text_lower, Len(target) + 1, Len(text_lower))
        idx == Find(text_lower, target)
        is_word_start == idx = 0 \/ ~IsAlnum(text_lower[idx])
        is_word_end == \/ idx + Len(target) >= Len(text_lower)
                       \/ ~IsAlnum(text_lower[idx + Len(target) + 1])
    IN  IF text_lower = target THEN 1000
        ELSE IF /\ StartsWith(text_lower, target)
                /\ Len(text_lower) > Len(target)
                /\ Strip(extra_chars) # <<>>
                /\ \E k \in 1..Len(extra_chars) : IsAlnum(extra_chars[k])
        THEN 100
        ELSE IF Occurrences(text_lower, target) # {}
        THEN (IF is_word_start /\ is_word_end THEN 500 ELSE 200)
        ELSE 0

_calculate_similarity_to_notepad(text) ==
    LET text_lower == Lower(Strip(text))
        extra_chars == SubSeq(text_lower, Len(target) + 1, Len(text_lower))
        idx == Find(text_lower, target)
        is_word_start == idx = 0 \/ ~IsAlnum(text_lower[idx])
        is_word_end == \/ idx + Len(target) >= Len(text_lower)
                       \/ ~IsAlnum(text_lower[idx + Len(target) + 1])
    IN  IF text_lower = target THEN 1000
        ELSE IF /\ StartsWith(text_lower, target)
                /\ Len(text_lower) > Len(target)
                /\ Strip(extra_chars) # <<>>
                /\ \E k \in 1..Len(extra_chars) : IsAlnum(extra_chars[k])
        THEN 100
        ELSE IF Occurrences(text_lower, target) # {}
        THEN (IF is_word_start /\ is_word_end THEN 500 ELSE 200)
        ELSE 0

\* ------------------------------------------------------------------------
\* IconDetector._detect_with_ocr
\* ------------------------------------------------------------------------

\* A stage's outcome: an exception, or the tuple (x, y, confidence).
Raised == [exc |-> TRUE, x |-> None, y |-> None, confidence |-> 0]

Ret(x, y, confidence) == [exc |-> FALSE, x |-> x, y |-> y, confidence |-> confidence]

\* Mutant: the weights are swapped (similarity 0.3, OCR confidence 0.7).
CandidateOf_swapped(t) ==
    LET similarity == _calculate_similarity_to_notepad(Strip(t.text))
        icon_x == t.left + t.width \div 2
        icon_y == TruncDiv(4 * t.top - Max(3 * t.height, 80), 4)
    IN  [text |-> Strip(t.text), x |-> icon_x, y |-> icon_y,
         similarity |-> similarity, ocr_conf |-> t.conf,
         combined_score |-> (similarity * 3) \div 10 + t.conf * 7]

\* Mutant: icon_y is rounded down (floor) instead of truncated by int().
CandidateOf_floor(t) ==
    LET similarity == _calculate_similarity_to_notepad(Strip(t.text))
        icon_x == t.left + t.width \div 2
        icon_y == (4 * t.top - Max(3 * t.height, 80)) \div 4
    IN  [text |-> Strip(t.text), x |-> icon_x, y |-> icon_y,
         similarity |-> similarity, ocr_conf |-> t.conf,
         combined_score |-> (similarity * 7) \div 10 + t.conf * 3]

\* Mutant: the similarity enters the combined score unweighted.
CandidateOf_unweighted(t) ==
    LET similarity == _calculate_similarity_to_notepad(Strip(t.text))
        icon_x == t.left + t.width \div 2
        icon_y == TruncDiv(4 * t.top - Max(3 * t.height, 80), 4)
    IN  [text |-> Strip(t.text), x |-> icon_x, y |-> icon_y,
         similarity |-> similarity, ocr_conf |-> t.conf,
         combined_score |-> similarity + t.conf * 3]

\* The candidate the loop body appends for OCR token t.
CandidateOf(t) ==
    LET similarity == _calculate_similarity_to_notepad(Strip(t.text))
        icon_x == t.left + t.width \div 2
        \* int(y - max(h * 1.5, 40) / 2), computed in quarters of a pixel
        icon_y == TruncDiv(4 * t.top - Max(3 * t.height, 80), 4)
    IN  [text |-> Strip(t.text), x |-> icon_x, y |-> icon_y,
         similarity |-> similarity, ocr_conf |-> t.conf,
         combined_score |-> (similarity * 7) \div 10 + t.conf * 3]

\* The tokens the loop keeps: non-empty after strip, similarity > 0.
IsMatch(t) ==
    /\ Strip(t.text) # <<>>
    /\ _calculate_similarity_to_notepad(Strip(t.text)) > 0

RECURSIVE CandidatesOf(_)
CandidatesOf(tokens) ==
    IF tokens = <<>> THEN <<>>
    ELSE (IF IsMatch(Head(tokens)) THEN <<CandidateOf(Head(tokens))>> ELSE <<>>)
         \o CandidatesOf(Tail(tokens))

\* Mutant: the last candidate with the maximum.
BestCandidate_last(candidates) ==
    LET best == CHOOSE k \in 1..Len(candidates) :
                    /\ \A j \in 1..Len(candidates) :
                           candidates[j].combined_score <= candidates[k].combined_score
                    /\ \A j \in (k + 1)..Len(candidates) :
                           candidates[j].combined_score < candidates[k].combined_score
    IN  candidates[best]

\* max(candidates, key=combined_score): the first candidate with the maximum.
BestCandidate(candidates) ==
    LET best == CHOOSE k \in 1..Len(candidates) :
                    /\ \A j \in 1..Len(candidates) :
                           candidates[j].combined_score <= candidates[k].combined_score
                    /\ \A j \in 1..(k - 1) :
                           candidates[j].combined_score < candidates[k].combined_score
    IN  candidates[best]

\* How the OCR backend behaved in one call: get_tesseract_version() raised
\* ("missing"), something after it raised ("raised"), or recognition returned.
Backend(ocr) ==
    IF ~ocr.tesseract THEN "missing"
    ELSE IF ~ocr.recognised THEN "raised"
    ELSE "ran"

\* best_match['text'] of a run, <<>> when the run selects no candidate.
BestText(ocr) ==
    IF Backend(ocr) = "ran" /\ CandidatesOf(ocr.tokens) # <<>>
    THEN BestCandidate(CandidatesOf(ocr.tokens)).text
    ELSE <<>>

\* Mutant: the combined score is returned without the cap.
_detect_with_ocr_uncapped(ocr) ==
    IF ~ocr.tesseract THEN Ret(None, None, 0)
    ELSE IF ~ocr.recognised THEN Ret(None, None, 0)
    ELSE LET candidates == CandidatesOf(ocr.tokens)
         IN  IF candidates = <<>> THEN Ret(None, None, 0)
             ELSE LET best_match == BestCandidate(candidates)
                  IN  Ret(best_match.x, best_match.y, best_match.combined_score)

\* Mutant: no try/except around the backend.
_detect_with_ocr_uncaught(ocr) ==
    IF ~ocr.tesseract \/ ~ocr.recognised THEN Raised
    ELSE LET candidates == CandidatesOf(ocr.tokens)
         IN  IF candidates = <<>> THEN Ret(None, None, 0)
             ELSE LET best_match == BestCandidate(candidates)
                  IN  Ret(best_match.x, best_match.y,
                          Min(best_match.combined_score, 900))

\* ocr: [tesseract: is the engine found, recognised: does image_to_data return,
\*       tokens: what it returns].  Every exception is caught inside.
_detect_with_ocr(ocr) ==
    IF ~ocr.tesseract THEN Ret(None, None, 0)
    ELSE IF ~ocr.recognised THEN Ret(None, None, 0)
    ELSE LET candidates == CandidatesOf(ocr.tokens)
         IN  IF candidates = <<>> THEN Ret(None, None, 0)
             ELSE LET best_match == BestCandidate(candidates)
                  IN  Ret(best_match.x, best_match.y,
                          Min(best_match.combined_score, 900))

\* ------------------------------------------------------------------------
\* IconDetector._detect_with_template_matching
\* ------------------------------------------------------------------------

\* int(shape * scale) for a scale in tenths
Resized(n, scale) == (n * scale) \div 10

\* Mutant: a scale that equals the tracked best replaces it (>=).
RECURSIVE ScaleSweep_last(_, _, _, _)
ScaleSweep_last(k, best, frame, shape) ==
    IF k > Len(scales) THEN best
    ELSE LET width == Resized(shape[1], scales[k])
             height == Resized(shape[2], scales[k])
             r == frame.match[k]
         IN  IF width > frame.shape[1] \/ height > frame.shape[2]
             THEN ScaleSweep_last(k + 1, best, frame, shape)
             ELSE IF r.max_val >= best.confidence
             THEN ScaleSweep_last(k + 1, [match |-> r.max_loc, confidence |-> r.max_val,
                                          scale |-> scales[k]], frame, shape)
             ELSE ScaleSweep_last(k + 1, best, frame, shape)

\* The loop over scales from index k on; best = [match, confidence, scale].
\* frame.match[k] is what minMaxLoc reports for scale k: [max_val, max_loc].
RECURSIVE ScaleSweep(_, _, _, _)
ScaleSweep(k, best, frame, shape) ==
    IF k > Len(scales) THEN best
    ELSE LET width == Resized(shape[1], scales[k])
             height == Resized(shape[2], scales[k])
             r == frame.match[k]
         IN  IF width > frame.shape[1] \/ height > frame.shape[2]
             THEN ScaleSweep(k + 1, best, frame, shape)
             ELSE IF r.max_val > best.confidence
             THEN ScaleSweep(k + 1, [match |-> r.max_loc, confidence |-> r.max_val,
                                     scale |-> scales[k]], frame, shape)
             ELSE ScaleSweep(k + 1, best, frame, shape)

\* NoMatch is best_match = None (a found location is a non-empty tuple, truthy).
NoMatch == <<>>

_detect_with_template_matching(frame, shape, threshold) ==
    IF ~frame.cv_ok THEN Raised
    ELSE LET best == ScaleSweep(1, [match |-> NoMatch, confidence |-> 0, scale |-> 10],
                                frame, shape)
         IN  IF best.match # NoMatch /\ best.confidence >= threshold
             THEN Ret(best.match[1] + Resized(shape[1], best.scale) \div 2,
                      best.match[2] + Resized(shape[2], best.scale) \div 2,
                      best.confidence)
             ELSE Ret(None, None, best.confidence)

\* ------------------------------------------------------------------------
\* Inputs: what the screen, the template file and the callers can supply
\* ------------------------------------------------------------------------

\* The thresholds a caller constructs a detector with (main uses the default).
Thresholds == {0, 500, TEMPLATE_MATCH_THRESHOLD}

\* The template file: absent, a readable image, a file cv2.imread returns None
\* for, or an image cv2.cvtColor raises on.
TemplateFiles == {"missing", "image", "undecodable", "unconvertible"}

\* template_gray.shape as (width, height)
TemplateShape == <<40, 40>>

\* Frame sizes (width, height): the assumed screen, a larger one, a tiny one.
FrameShapes == {<<1920, 1080>>, <<2560, 1440>>, <<50, 50>>}

\* Maximum correlations minMaxLoc can report (TM_CCOEFF_NORMED, thousandths).
MatchVals == {-200, 650, 950}

\* Where the maximum can lie: the top-left corner or as far right and down as
\* the largest resized template allows.
MatchLocs(shape) ==
    {<<0, 0>>,
     <<Max(shape[1] - Resized(TemplateShape[1], 15), 0),
       Max(shape[2] - Resized(TemplateShape[2], 15), 0)>>}

\* The frames template matching can be given.  cv_ok = FALSE: a cv2 call raises.
Frames ==
    {[cv_ok |-> FALSE, shape |-> <<1920, 1080>>,
      match |-> [k \in 1..Len(scales) |-> [max_val |-> 0, max_loc |-> <<0, 0>>]]]}
    \cup
    UNION {{[cv_ok |-> TRUE, shape |-> sh,
             match |-> [k \in 1..Len(scales) |-> [max_val |-> v[k], max_loc |-> loc]]] :
               v \in [1..Len(scales) -> MatchVals], loc \in MatchLocs(sh)} :
           sh \in FrameShapes}

\* Frames handed to _detect_with_template_matching directly: per scale its
\* own maximum and its own location, in frames that fit every resized
\* template, all but the largest, only the smallest, or none.
SweepShapes == {<<1920, 1080>>, <<50, 50>>, <<35, 35>>, <<30, 30>>}

SweepVals == {-200, 0, 700, 950}

\* The location reported for scale k: inside the result map when the resized
\* template fits.
SweepLoc(k, shape) ==
    <<Max(Min(7 * k, shape[1] - Resized(TemplateShape[1], scales[k])), 0),
      Max(Min(5 * k, shape[2] - Resized(TemplateShape[2], scales[k])), 0)>>

SweepFrames ==
    {[cv_ok |-> TRUE, shape |-> sh,
      match |-> [k \in 1..Len(scales) |-> [max_val |-> v[k], max_loc |-> SweepLoc(k, sh)]]] :
        v \in [1..Len(scales) -> SweepVals], sh \in SweepShapes}

\* Texts tesseract can return.
Texts ==
    {<<"N", "o", "t", "e", "p", "a", "d">>,
     <<"N", "o", "t", "e", "p", "a", "d", "+", "+">>,
     <<"C", "a", "l", "c">>,
     <<" ">>}

\* Bounding boxes: a caption in the middle of the screen, one at the top edge.
Boxes ==
    {[left |-> 930, top |-> 560, width |-> 61, height |-> 12],
     [left |-> 10, top |-> 5, width |-> 60, height |-> 30]}

\* Raw OCR confidences (0..100).
Confs == {0, 96}

Tokens ==
    {[text |-> t, left |-> b.left, top |-> b.top, width |-> b.width,
      height |-> b.height, conf |-> c] : t \in Texts, b \in Boxes, c \in Confs}

\* The most tokens one OCR run returns.
MaxTokens == 1

TokenLists == UNION {[1..n -> Tokens] : n \in 0..MaxTokens}

\* What the OCR backend can do in one call of _detect_with_ocr.
OcrInputs ==
    {[tesseract |-> FALSE, recognised |-> FALSE, tokens |-> <<>>],
     [tesseract |-> TRUE, recognised |-> FALSE, tokens |-> <<>>]}
    \cup {[tesseract |-> TRUE, recognised |-> TRUE, tokens |-> ts] : ts \in TokenLists}

\* Texts handed to _calculate_similarity_to_notepad directly: a word with
\* something before and something after it.
Befores ==
    {<<>>, <<" ">>, <<"M", "y">>, <<"m", "y", " ">>, <<"-">>,
     <<"x", "n", "o", "t", "e", "p", "a", "d", " ">>}

Words ==
    {<<"n", "o", "t", "e", "p", "a", "d">>,
     <<"N", "o", "t", "e", "p", "a", "d">>,
     <<"N", "O", "T", "E", "P", "A", "D">>,
     <<"n", "o", "t", "e", "s">>,
     <<"C", "a", "l", "c">>}

Afters ==
    {<<>>, <<" ">>, <<"+", "+">>, <<"2">>, <<".">>, <<" ", "x">>,
     <<"T", "o", "o", "l">>, <<" ", "+">>}

ScoredTexts == {b \o w \o a : b \in Befores, w \in Words, a \in Afters}

\* Words of one OCR run handed to _detect_with_ocr directly: text and raw
\* confidence; the k-th word of a run stands in the k-th box of a row.
RowTexts ==
    {<<"N", "o", "t", "e", "p", "a", "d">>,
     <<"N", "o", "t", "e", "p", "a", "d", "+", "+">>,
     <<"N", "o", "t", "e", "p", "a", "d", "2">>,
     <<"M", "y", "N", "o", "t", "e", "p", "a", "d", "T", "o", "o", "l">>,
     <<"C", "a", "l", "c">>,
     <<" ">>}

RowConfs == {0, 70, 100}

\* The most words in such a run.
MaxWords == 2

\* Odd places hold a small caption in the middle of the screen, even places a
\* tall one at the top edge.
RowToken(k, text, conf) ==
    IF k % 2 = 1
    THEN [text |-> text, left |-> 200 * k, top |-> 560, width |-> 61, height |-> 12,
          conf |-> conf]
    ELSE [text |-> text, left |-> 200 * k, top |-> 5, width |-> 60, height |-> 31,
          conf |-> conf]

Rows ==
    UNION {{[k \in 1..n |-> RowToken(k, ts[k], cs[k])] :
               ts \in [1..n -> RowTexts], cs \in [1..n -> RowConfs]} : n \in 0..MaxWords}

OcrRuns ==
    {[tesseract |-> FALSE, recognised |-> FALSE, tokens |-> <<>>],
     [tesseract |-> TRUE, recognised |-> FALSE, tokens |-> <<>>]}
    \cup {[tesseract |-> TRUE, recognised |-> TRUE, tokens |-> ts] : ts \in Rows}

\* ------------------------------------------------------------------------
\* State
\* ------------------------------------------------------------------------

VARIABLES
    template_file,         \* what lies at template_path
    caller,                \* which program drives the detector
    detector,              \* "none", "constructed" or "LoadError"
    confidence_threshold,  \* self.confidence_threshold
    template,              \* self.template is not None
    template_gray,         \* self.template_gray is not None
    val,                   \* the last validate_icon_detection call
    dip,                   \* the detect_icon_position call in progress or last made
    rty,                   \* the detect_with_retry call in progress or last made
    app,                   \* main()
    fn                     \* the last direct call of a detector method, with its argument

vars == <<template_file, caller, detector, confidence_threshold, template,
          template_gray, val, dip, rty, app, fn>>

\* No result yet.
NoResult == [exc |-> FALSE, x |-> None, y |-> None, confidence |-> None]

ValIdle == [called |-> FALSE, x |-> None, y |-> None, confidence |-> 0, ret |-> FALSE]

DipIdle ==
    [pc |-> "idle", given |-> FALSE, use_ocr_fallback |-> TRUE, stages |-> <<>>,
     confidence |-> 0, tm |-> NoResult, backend |-> "unused", best_text |-> <<>>,
     ocr |-> NoResult, ret |-> NoResult]

RtyIdle ==
    [pc |-> "idle", max_retries |-> 0, attempt |-> 0, made |-> 0, nulls |-> 0,
     sleeps |-> 0, ret |-> NoResult]

AppIdle ==
    [pc |-> "idle", posts |-> 0, i |-> 0, successful_saves |-> 0, failed_saves |-> 0,
     detected |-> NoResult, valid |-> FALSE, launched |-> <<>>, closes |-> 0,
     done |-> 0, interrupted |-> FALSE]

\* No method called directly yet.
NoRun == [tesseract |-> FALSE, recognised |-> FALSE, tokens |-> <<>>]

\* No frame, and the tracked best before the loop over the scales.
NoFrame ==
    [cv_ok |-> TRUE, shape |-> <<0, 0>>,
     match |-> [k \in 1..Len(scales) |-> [max_val |-> 0, max_loc |-> <<0, 0>>]]]

NoBest == [match |-> NoMatch, confidence |-> 0, scale |-> 10]

FnIdle ==
    [called |-> "none", text |-> <<>>, similarity |-> 0, ocr |-> NoRun,
     candidates |-> <<>>, best_match |-> <<>>, frame |-> NoFrame, best |-> NoBest,
     ret |-> NoResult]

Init ==
    /\ template_file \in TemplateFiles
    /\ caller \in {"validate", "detect", "retry", "main", "similarity", "ocr",
                  "template"}
    /\ detector = "none"
    /\ confidence_threshold = TEMPLATE_MATCH_THRESHOLD
    /\ template = FALSE
    /\ template_gray = FALSE
    /\ val = ValIdle
    /\ dip = DipIdle
    /\ rty = RtyIdle
    /\ app = AppIdle
    /\ fn = FnIdle

\* ------------------------------------------------------------------------
\* IconDetector.__init__ and _load_template
\* ------------------------------------------------------------------------

\* Mutant: the exception is logged and swallowed.
_load_template_swallowed(file) ==
    IF file = "undecodable"
    THEN [template |-> FALSE, template_gray |-> FALSE, raised |-> FALSE]
    ELSE IF file = "unconvertible"
    THEN [template |-> TRUE, template_gray |-> FALSE, raised |-> FALSE]
    ELSE [template |-> TRUE, template_gray |-> TRUE, raised |-> FALSE]

\* _load_template on an existing file: what it leaves in self.template and
\* self.template_gray, and whether it raises.
_load_template(file) ==
    IF file = "undecodable"
    THEN [template |-> FALSE, template_gray |-> FALSE, raised |-> TRUE]
    ELSE IF file = "unconvertible"
    THEN [template |-> TRUE, template_gray |-> FALSE, raised |-> TRUE]
    ELSE [template |-> TRUE, template_gray |-> TRUE, raised |-> FALSE]

\* Mutant: _load_template runs whether or not the file exists, and raises on
\* a missing one.
IconDetector_always_loads(file) ==
    IF file # "missing" THEN _load_template(file)
    ELSE [template |-> FALSE, template_gray |-> FALSE, raised |-> TRUE]

\* __init__: template_path.exists() decides whether _load_template runs.
IconDetector(file) ==
    IF file # "missing" THEN _load_template(file)
    ELSE [template |-> FALSE, template_gray |-> FALSE, raised |-> FALSE]

Construct ==
    /\ detector = "none"
    /\ \E threshold \in (IF caller \in {"validate", "detect", "retry", "template"}
                         THEN Thresholds
                         ELSE {TEMPLATE_MATCH_THRESHOLD}) :
          LET d == IconDetector(template_file)
          IN  /\ confidence_threshold' = threshold
              /\ template' = d.template
              /\ template_gray' = d.template_gray
              /\ detector' = IF d.raised THEN "LoadError" ELSE "constructed"
    /\ UNCHANGED <<template_file, caller, val, dip, rty, app, fn>>

\* ------------------------------------------------------------------------
\* A caller of validate_icon_detection (tests/test_detection.py)
\* ------------------------------------------------------------------------

CoordXs == {None, -15, 0, 960, BoundsX, BoundsX + 1, 3000}

CoordYs == {None, -1, 0, 540, BoundsY, BoundsY + 1}

Confidences == {0, 499, 500, 699, 700, 800, 1000}

Validate ==
    /\ caller = "validate"
    /\ detector = "constructed"
    /\ \E x \in CoordXs, y \in CoordYs, c \in Confidences :
          val' = [called |-> TRUE, x |-> x, y |-> y, confidence |-> c,
                  ret |-> validate_icon_detection(x, y, c, confidence_threshold)]
    /\ UNCHANGED <<template_file, caller, detector, confidence_threshold, template,
                   template_gray, dip, rty, app, fn>>

\* ------------------------------------------------------------------------
\* Direct calls of _calculate_similarity_to_notepad and of _detect_with_ocr
\* ------------------------------------------------------------------------

SimilarityCall ==
    /\ caller = "similarity"
    /\ detector = "constructed"
    /\ fn.called = "none"
    /\ \E text \in ScoredTexts :
          fn' = [FnIdle EXCEPT !.called = "similarity", !.text = text,
                               !.similarity = _calculate_similarity_to_notepad(text)]
    /\ UNCHANGED <<template_file, caller, detector, confidence_threshold, template,
                   template_gray, val, dip, rty, app>>

\* The call with what the body keeps on the way: the candidates list and the
\* best_match (none when the call returns before line 301).
OcrCall ==
    /\ caller = "ocr"
    /\ detector = "constructed"
    /\ fn.called = "none"
    /\ \E ocr \in OcrRuns :
          LET candidates == IF ocr.tesseract /\ ocr.recognised
                            THEN CandidatesOf(ocr.tokens) ELSE <<>>
          IN  fn' = [FnIdle EXCEPT !.called = "ocr", !.ocr = ocr,
                                   !.candidates = candidates,
                                   !.best_match = IF candidates = <<>> THEN <<>>
                                                  ELSE <<BestCandidate(candidates)>>,
                                   !.ret = _detect_with_ocr(ocr)]
    /\ UNCHANGED <<template_file, caller, detector, confidence_threshold, template,
                   template_gray, val, dip, rty, app>>

\* The call of _detect_with_template_matching on a detector that has a
\* template, with what the loop leaves in best_match, best_confidence and
\* best_scale.
TemplateCall ==
    /\ caller = "template"
    /\ detector = "constructed"
    /\ template_gray
    /\ fn.called = "none"
    /\ \E frame \in SweepFrames :
          fn' = [FnIdle EXCEPT !.called = "template", !.frame = frame,
                               !.best = ScaleSweep(1, NoBest, frame, TemplateShape),
                               !.ret = _detect_with_template_matching(
                                           frame, TemplateShape, confidence_threshold)]
    /\ UNCHANGED <<template_file, caller, detector, confidence_threshold, template,
                   template_gray, val, dip, rty, app>>

\* ------------------------------------------------------------------------
\* IconDetector.detect_icon_position, one stage at a time
\* ------------------------------------------------------------------------

\* Entry: the screenshot is the caller's, or capture_screenshot() supplies one
\* (captured) or raises.
DipEnter(given, fallback, captured) ==
    [DipIdle EXCEPT !.pc = IF given \/ captured THEN "match" ELSE "raised",
                    !.given = given,
                    !.use_ocr_fallback = fallback,
                    !.stages = IF given THEN <<>> ELSE <<"capture">>]

\* Mutant: a confidence equal to the threshold is not accepted.
TemplateAccepted_strict(confidence, threshold) == confidence > threshold

\* if confidence >= self.confidence_threshold: return x, y, confidence
TemplateAccepted(confidence, threshold) == confidence >= threshold

\* if self.template_gray is not None: ... template matching first
DipTemplateStage(d, frame) ==
    LET r == _detect_with_template_matching(frame, TemplateShape, confidence_threshold)
        ran == [d EXCEPT !.stages = Append(d.stages, "template"), !.tm = r]
    IN  IF r.exc THEN [ran EXCEPT !.pc = "raised"]
        ELSE IF TemplateAccepted(r.confidence, confidence_threshold)
        THEN [ran EXCEPT !.pc = "returned", !.confidence = r.confidence, !.ret = r]
        ELSE [ran EXCEPT !.pc = "fallback", !.confidence = r.confidence]

DipTemplate ==
    /\ dip.pc = "match"
    /\ IF template_gray
       THEN \E frame \in Frames : dip' = DipTemplateStage(dip, frame)
       ELSE dip' = [dip EXCEPT !.pc = "fallback"]
    /\ UNCHANGED <<template_file, caller, detector, confidence_threshold, template,
                   template_gray, val, rty, app, fn>>

\* Mutant: the OCR stage runs whatever use_ocr_fallback says.
DipOcrStage_unconditional(d, ocr) ==
    LET r == _detect_with_ocr(ocr)
        ran == [d EXCEPT !.stages = Append(d.stages, "ocr"),
                         !.backend = Backend(ocr),
                         !.best_text = BestText(ocr), !.ocr = r,
                         !.confidence = r.confidence, !.pc = "returned"]
    IN  IF r.x # None /\ r.y # None
        THEN [ran EXCEPT !.ret = r]
        ELSE [ran EXCEPT !.ret = Ret(None, None, r.confidence)]

\* if use_ocr_fallback: ... else ...; return None, None, confidence
DipOcrStage(d, ocr) ==
    IF d.use_ocr_fallback
    THEN LET r == _detect_with_ocr(ocr)
             ran == [d EXCEPT !.stages = Append(d.stages, "ocr"),
                              !.backend = Backend(ocr),
                              !.best_text = BestText(ocr), !.ocr = r,
                              !.confidence = r.confidence, !.pc = "returned"]
         IN  IF r.x # None /\ r.y # None
             THEN [ran EXCEPT !.ret = r]
             ELSE [ran EXCEPT !.ret = Ret(None, None, r.confidence)]
    ELSE [d EXCEPT !.pc = "returned", !.ret = Ret(None, None, d.confidence)]

DipOcr ==
    /\ dip.pc = "fallback"
    /\ \E ocr \in OcrInputs : dip' = DipOcrStage(dip, ocr)
    /\ UNCHANGED <<template_file, caller, detector, confidence_threshold, template,
                   template_gray, val, rty, app, fn>>

\* A direct caller (generate_detection_screenshots.py passes its own screenshot).
DetectCall ==
    /\ caller = "detect"
    /\ detector = "constructed"
    /\ dip.pc \in {"idle", "returned", "raised"}
    /\ \E given \in BOOLEAN, fallback \in BOOLEAN, captured \in BOOLEAN :
          dip' = DipEnter(given, fallback, captured)
    /\ UNCHANGED <<template_file, caller, detector, confidence_threshold, template,
                   template_gray, val, rty, app, fn>>

\* ------------------------------------------------------------------------
\* IconDetector.detect_with_retry
\* ------------------------------------------------------------------------

\* if x is not None and y is not None: return x, y, confidence
AttemptSucceeded(r) == r.x # None /\ r.y # None

\* Mutant: the sleep also follows the last attempt.
ShouldSleep_always(attempt, max_retries) == attempt < max_retries

\* if attempt < max_retries - 1: time.sleep(retry_delay)
ShouldSleep(attempt, max_retries) == attempt < max_retries - 1

\* Mutant: one attempt too many.
InRange_inclusive(attempt, max_retries) == attempt <= max_retries

\* for attempt in range(max_retries): is attempt still in the range
InRange(attempt, max_retries) == attempt < max_retries

\* The result once range(max_retries) is exhausted.
Exhausted == Ret(None, None, 0)

\* for attempt in range(max_retries): the call up to its first attempt.
\* pc = "attempting": self.detect_icon_position() is running.
RetryEnter(n) ==
    IF InRange(0, n)
    THEN [RtyIdle EXCEPT !.pc = "attempting", !.max_retries = n, !.made = 1]
    ELSE [RtyIdle EXCEPT !.pc = "returned", !.max_retries = n, !.ret = Exhausted]

\* The loop body after detect_icon_position has ended as d, up to the next
\* attempt's call or the return.  An exception of the attempt is not caught.
RetryAfterAttempt(r, d) ==
    IF d.pc = "raised" THEN [r EXCEPT !.pc = "raised"]
    ELSE IF AttemptSucceeded(d.ret) THEN [r EXCEPT !.pc = "returned", !.ret = d.ret]
    ELSE LET slept == IF ShouldSleep(r.attempt, r.max_retries)
                      THEN r.sleeps + 1 ELSE r.sleeps
         IN  IF InRange(r.attempt + 1, r.max_retries)
             THEN [r EXCEPT !.attempt = r.attempt + 1, !.nulls = r.nulls + 1,
                            !.sleeps = slept, !.made = r.made + 1]
             ELSE [r EXCEPT !.attempt = r.attempt + 1, !.nulls = r.nulls + 1,
                            !.sleeps = slept, !.pc = "returned", !.ret = Exhausted]

RetryStep ==
    /\ rty.pc = "attempting"
    /\ dip.pc \in {"returned", "raised"}
    /\ rty' = RetryAfterAttempt(rty, dip)
    /\ IF rty'.pc = "attempting"
       THEN \E captured \in BOOLEAN : dip' = DipEnter(FALSE, TRUE, captured)
       ELSE dip' = dip
    /\ UNCHANGED <<template_file, caller, detector, confidence_threshold, template,
                   template_gray, val, app, fn>>

\* A direct caller of detect_with_retry.
RetryCall ==
    /\ caller = "retry"
    /\ detector = "constructed"
    /\ rty.pc \in {"idle", "returned", "raised"}
    /\ \E n \in (0 - 1)..MaxRetriesArg :
          /\ rty' = RetryEnter(n)
          /\ IF rty'.pc = "attempting"
             THEN \E captured \in BOOLEAN : dip' = DipEnter(FALSE, TRUE, captured)
             ELSE dip' = DipIdle
    /\ UNCHANGED <<template_file, caller, detector, confidence_threshold, template,
                   template_gray, val, app, fn>>

\* ------------------------------------------------------------------------
\* main(): the post-processing loop
\* ------------------------------------------------------------------------

\* detector.detect_with_retry(max_retries=3, retry_delay=1.0)
MainRetries == 3

\* continue, or the end of the for loop after the last post; done counts the
\* iterations that have ended this way.
NextPost(a) ==
    IF a.i < a.posts THEN [a EXCEPT !.i = a.i + 1, !.pc = "loop", !.done = a.done + 1]
    ELSE [a EXCEPT !.pc = "summary", !.done = a.done + 1]

\* Mutant: the close actions of a failed post are not issued.
FailPost_no_close(a, closing) ==
    NextPost([a EXCEPT !.failed_saves = a.failed_saves + 1])

\* Mutant: a failed post is not counted.
FailPost_uncounted(a, closing) ==
    NextPost([a EXCEPT !.closes = a.closes + closing])

\* failed_saves += 1 after the given number of close actions; continue.
FailPost(a, closing) ==
    NextPost([a EXCEPT !.failed_saves = a.failed_saves + 1,
                       !.closes = a.closes + closing])

\* Steps 3 to 5: fetch and validate the posts; sys.exit(1) without valid posts.
MainStart ==
    /\ caller = "main"
    /\ detector = "constructed"
    /\ app.pc = "idle"
    /\ \E fetched \in BOOLEAN, n \in 0..NumPosts :
          app' = IF fetched /\ n > 0
                 THEN [AppIdle EXCEPT !.pc = "loop", !.posts = n, !.i = 1]
                 ELSE [AppIdle EXCEPT !.pc = "exit"]
    /\ UNCHANGED <<template_file, caller, detector, confidence_threshold, template,
                   template_gray, val, dip, rty, fn>>

\* 6a, 6b: capture_screenshot(), then the call of detect_with_retry.  An
\* exception of the capture is caught by "except Exception".
MainIterate ==
    /\ app.pc = "loop"
    /\ \E shot \in BOOLEAN :
          IF shot
          THEN /\ app' = [app EXCEPT !.pc = "detecting", !.detected = NoResult,
                                     !.valid = FALSE, !.launched = <<>>, !.closes = 0]
               /\ rty' = RetryEnter(MainRetries)
               /\ \E captured \in BOOLEAN : dip' = DipEnter(FALSE, TRUE, captured)
          ELSE /\ app' = FailPost([app EXCEPT !.detected = NoResult, !.valid = FALSE,
                                              !.launched = <<>>, !.closes = 0], 1)
               /\ UNCHANGED <<dip, rty>>
    /\ UNCHANGED <<template_file, caller, detector, confidence_threshold, template,
                   template_gray, val, fn>>

\* 6b, 6c: the validation gate, then launch_notepad(x, y) (launch: its result).
\* After a failed launch failed_saves += 1 comes before ensure_notepad_closed()
\* (pc = "closing").
MainGate(a, r, launch) ==
    IF r.pc = "raised" THEN FailPost(a, 1)
    ELSE LET got == [a EXCEPT !.detected = r.ret,
                              !.valid = validate_icon_detection(
                                            r.ret.x, r.ret.y, r.ret.confidence,
                                            confidence_threshold)]
         IN  IF ~got.valid THEN FailPost(got, 0)
             ELSE LET clicked == [got EXCEPT !.launched =
                                      <<r.ret.x, r.ret.y, r.ret.confidence>>]
                  IN  IF launch THEN [clicked EXCEPT !.pc = "typing"]
                      ELSE [clicked EXCEPT !.failed_saves = clicked.failed_saves + 1,
                                           !.pc = "closing"]

MainAfterDetect ==
    /\ app.pc = "detecting"
    /\ rty.pc \in {"returned", "raised"}
    /\ \E launch \in BOOLEAN : app' = MainGate(app, rty, launch)
    /\ UNCHANGED <<template_file, caller, detector, confidence_threshold, template,
                   template_gray, val, dip, rty, fn>>

\* 6d: format_post_content and type_text; on an exception close_notepad().
MainType ==
    /\ app.pc = "typing"
    /\ \E typed \in BOOLEAN :
          app' = IF typed THEN [app EXCEPT !.pc = "saving"] ELSE FailPost(app, 1)
    /\ UNCHANGED <<template_file, caller, detector, confidence_threshold, template,
                   template_gray, val, dip, rty, fn>>

\* 6e: save_file; after a save that succeeded successful_saves += 1 comes
\* before close_notepad() (pc = "closing"); after one that failed
\* close_notepad() and ensure_notepad_closed() come before failed_saves += 1;
\* an unexpected exception is caught by "except Exception".
MainSave ==
    /\ app.pc = "saving"
    /\ \E saved \in {"saved", "failed", "raised"} :
          app' = CASE saved = "saved" ->
                        [app EXCEPT !.successful_saves = app.successful_saves + 1,
                                    !.pc = "closing"]
                   [] saved = "failed" -> FailPost(app, 2)
                   [] OTHER -> FailPost(app, 1)
    /\ UNCHANGED <<template_file, caller, detector, confidence_threshold, template,
                   template_gray, val, dip, rty, fn>>

\* The close action that follows a counted post: 6f, 6g after a save
\* (close_notepad, the sleeps), ensure_notepad_closed() and continue after a
\* failed launch.
MainClose ==
    /\ app.pc = "closing"
    /\ app' = NextPost([app EXCEPT !.closes = app.closes + 1])
    /\ UNCHANGED <<template_file, caller, detector, confidence_threshold, template,
                   template_gray, val, dip, rty, fn>>

\* except KeyboardInterrupt: ensure_notepad_closed(); break.  The interrupt
\* aborts the detection in progress.
MainInterrupt ==
    /\ app.pc \in {"loop", "detecting", "typing", "saving", "closing"}
    /\ app' = [app EXCEPT !.pc = "summary", !.closes = app.closes + 1,
                          !.interrupted = TRUE]
    /\ rty' = IF rty.pc = "attempting" THEN [rty EXCEPT !.pc = "interrupted"] ELSE rty
    /\ dip' = IF dip.pc \in {"match", "fallback"}
              THEN [dip EXCEPT !.pc = "interrupted"] ELSE dip
    /\ UNCHANGED <<template_file, caller, detector, confidence_threshold, template,
                   template_gray, val, fn>>

Next ==
    \/ Construct
    \/ Validate
    \/ DetectCall
    \/ DipTemplate
    \/ DipOcr
    \/ RetryCall
    \/ RetryStep
    \/ MainStart
    \/ MainIterate
    \/ MainAfterDetect
    \/ MainType
    \/ MainSave
    \/ MainClose
    \/ MainInterrupt
    \/ SimilarityCall
    \/ OcrCall
    \/ TemplateCall

Spec == Init /\ [][Next]_vars

\* ========================================================================
\* Properties
\* ========================================================================

Range(s) == {s[k] : k \in 1..Len(s)}

\* The detection stages of a call: its stages after the capture, if any.
Detection(stages) ==
    IF stages # <<>> /\ Head(stages) = "capture" THEN Tail(stages) ELSE stages

\* The condition the validation gate is specified to test, for threshold tau.
Acceptable(x, y, c, tau) ==
    /\ x # None
    /\ y # None
    /\ c >= tau
    /\ 0 <= x /\ x <= 1920
    /\ 0 <= y /\ y <= 1080

\* C1: validate_icon_detection(x, y, c) is true if and only if x and y are
\* both non-null, c >= tau, 0 <= x <= 1920 and 0 <= y <= 1080; this holds of
\* every direct call and of the call main makes on the result of detection.
C1_ValidateIff ==
    /\ val.called =>
          (val.ret <=> Acceptable(val.x, val.y, val.confidence, confidence_threshold))
    /\ app.detected # NoResult =>
          (app.valid <=> Acceptable(app.detected.x, app.detected.y,
                                    app.detected.confidence, confidence_threshold))

\* A call on the corner of the bounds at exactly the threshold is accepted.
C1_Witness ==
    /\ val.called
    /\ val.x = 1920
    /\ val.y = 1080
    /\ val.confidence = confidence_threshold
    /\ val.ret

\* C2: detect_with_retry makes its attempts one after another and sleeps once
\* between two consecutive attempts: while attempt k runs it has slept k - 1
\* times; when it returns a success, that is the result of attempt k, the
\* k - 1 attempts before it all failed, k <= max_retries, and it has slept
\* k - 1 times; when it returns on exhaustion it has slept max_retries - 1
\* times, so never after the last attempt.
C2_RetrySleeps ==
    /\ rty.pc \in {"attempting", "raised", "interrupted"} =>
          /\ rty.made = rty.attempt + 1
          /\ rty.sleeps = rty.made - 1
    /\ (rty.pc = "returned" /\ rty.ret.x # None) =>
          /\ rty.made = rty.attempt + 1
          /\ rty.made <= rty.max_retries
          /\ rty.nulls = rty.made - 1
          /\ rty.sleeps = rty.made - 1
          /\ rty.ret = dip.ret
    /\ (rty.pc = "returned" /\ rty.ret.x = None) =>
          /\ rty.made = Max(rty.max_retries, 0)
          /\ rty.sleeps = Max(rty.max_retries - 1, 0)

\* Two failures, then a success on the third of three attempts: two sleeps.
C2_Witness ==
    /\ rty.pc = "returned"
    /\ rty.max_retries = 3
    /\ rty.ret.x # None
    /\ rty.made = 3
    /\ rty.nulls = 2
    /\ rty.sleeps = 2

\* C3: detect_with_retry makes at most max_retries attempts and does not get
\* stuck while one is running; it returns (None, None, 0.0) if and only if
\* max_retries attempts were made and every one of them returned null
\* coordinates (none at all for max_retries <= 0).
C3_ExhaustionOnly ==
    /\ rty.made <= Max(rty.max_retries, 0)
    /\ rty.pc = "attempting" => ENABLED (DipTemplate \/ DipOcr \/ RetryStep)
    /\ rty.pc # "idle" =>
          ((rty.pc = "returned" /\ rty.ret = Ret(None, None, 0))
             <=> rty.nulls = Max(rty.max_retries, 0))
    /\ rty.pc = "returned" =>
          (rty.ret = Ret(None, None, 0) \/ (rty.ret.x # None /\ rty.ret.y # None))

\* Three attempts whose template matches were all sub-threshold (0.65) and
\* whose OCR found nothing: the failure result, with confidence 0.
C3_Witness ==
    /\ rty.pc = "returned"
    /\ rty.max_retries = 3
    /\ rty.nulls = 3
    /\ dip.tm.confidence = 650
    /\ rty.ret = Ret(None, None, 0)

\* C4: detect_with_retry never returns the result of an attempt whose
\* confidence is below the threshold.
C4_SubThresholdConsumed ==
    (rty.pc = "returned" /\ rty.ret.x # None) =>
        rty.ret.confidence >= confidence_threshold

\* C5: with a template loaded, template matching is the first stage of every
\* call, and a call whose template confidence reached the threshold returns
\* the template result at once, without the OCR stage.
C5_TemplateFirst ==
    /\ (template_gray /\ dip.pc \in {"fallback", "returned"}) =>
          /\ Detection(dip.stages) # <<>>
          /\ Head(Detection(dip.stages)) = "template"
          /\ dip.tm # NoResult
    /\ (dip.tm # NoResult /\ ~dip.tm.exc /\ dip.tm.confidence >= confidence_threshold) =>
          /\ dip.pc = "returned"
          /\ dip.ret = dip.tm
          /\ "ocr" \notin Range(dip.stages)
          /\ dip.ocr = NoResult

\* A captured frame matched at 0.95: returned after capture and template only.
C5_Witness ==
    /\ dip.pc = "returned"
    /\ dip.stages = <<"capture", "template">>
    /\ dip.tm.confidence = 950
    /\ dip.ret.x # None
    /\ dip.ret.confidence = 950

\* C6: in every call that returns, the OCR stage has run if and only if
\* use_ocr_fallback is set and the template is absent or its match was below
\* the threshold; when it has run, the call returns the OCR result if the OCR
\* stage produced a candidate and null coordinates otherwise.  With
\* use_ocr_fallback = FALSE the OCR stage never runs.
C6_OcrFallback ==
    /\ dip.pc = "returned" =>
          /\ ("ocr" \in Range(dip.stages)) <=>
                /\ dip.use_ocr_fallback
                /\ \/ ~template_gray
                   \/ (dip.tm # NoResult /\ dip.tm.confidence < confidence_threshold)
          /\ "ocr" \in Range(dip.stages) =>
                IF dip.ocr.x # None /\ dip.ocr.y # None
                THEN dip.ret = dip.ocr
                ELSE dip.ret.x = None /\ dip.ret.y = None
          /\ "ocr" \notin Range(dip.stages) => dip.ocr = NoResult
    /\ ~dip.use_ocr_fallback => "ocr" \notin Range(dip.stages)

\* A sub-threshold template match followed by an OCR candidate.
C6_Witness ==
    /\ dip.pc = "returned"
    /\ template_gray
    /\ dip.tm.confidence = 650
    /\ confidence_threshold = 700
    /\ dip.stages = <<"capture", "template", "ocr">>
    /\ dip.ret.x = 960
    /\ dip.ret = dip.ocr

\* Coordinates that lie outside the screen bounds.
OutOfBounds(r) ==
    /\ r.x # None
    /\ r.y # None
    /\ (r.x < 0 \/ r.x > 1920 \/ r.y < 0 \/ r.y > 1080)

\* C7: launch_notepad is only ever called with coordinates and a confidence
\* that pass the validation gate; a result of detect_with_retry whose
\* coordinates lie outside the bounds is found invalid, and the step of main
\* that receives it counts the post as failed, launches nothing and goes on
\* to the next post (or to the summary).
C7_OutOfBoundsIsFailure ==
    /\ [](app.launched # <<>> =>
            Acceptable(app.launched[1], app.launched[2], app.launched[3],
                       confidence_threshold))
    /\ []((app.detected # NoResult /\ OutOfBounds(app.detected)) =>
            (~app.valid /\ app.launched = <<>>))
    /\ [][(/\ app.pc = "detecting"
           /\ rty.pc = "returned"
           /\ OutOfBounds(rty.ret)
           /\ app'.pc # "detecting"
           /\ ~app'.interrupted) =>
          (/\ app'.failed_saves = app.failed_saves + 1
           /\ app'.successful_saves = app.successful_saves
           /\ app'.launched = <<>>
           /\ app'.detected = rty.ret
           /\ app'.pc \in {"loop", "summary"})]_vars

\* An OCR caption at the top edge gave a negative y at confidence 0.7: the
\* post is counted as failed and nothing was launched.
C7_Witness ==
    /\ app.detected # NoResult
    /\ app.detected.y < 0
    /\ app.detected.confidence >= confidence_threshold
    /\ app.failed_saves >= 1
    /\ app.launched = <<>>
    /\ app.pc \in {"loop", "summary"}

\* C8: no error escapes detect_with_retry.
C8_NoErrorEscapes == rty.pc # "raised"

\* C9 as stated: a detector constructed from a missing file has no template,
\* and every call of detect_icon_position that returns has skipped template
\* matching and run the OCR stage.
C9_AlwaysOcr ==
    (template_file = "missing" /\ detector # "none") =>
        /\ detector = "constructed"
        /\ ~template /\ ~template_gray
        /\ "template" \notin Range(dip.stages)
        /\ dip.pc = "returned" => Detection(dip.stages) = <<"ocr">>

\* C9 as amended: ... every call that returns has skipped template matching,
\* and has run the OCR stage as its only detection stage if use_ocr_fallback
\* is set; with use_ocr_fallback = FALSE it ran no detection stage and
\* returned (None, None, 0.0).
C9_OcrOnlyMode ==
    (template_file = "missing" /\ detector # "none") =>
        /\ detector = "constructed"
        /\ ~template /\ ~template_gray
        /\ "template" \notin Range(dip.stages)
        /\ dip.tm = NoResult
        /\ dip.pc = "returned" =>
              IF dip.use_ocr_fallback
              THEN Detection(dip.stages) = <<"ocr">>
              ELSE Detection(dip.stages) = <<>> /\ dip.ret = Ret(None, None, 0)

\* A detector without template found the icon by OCR alone.
C9_Witness ==
    /\ template_file = "missing"
    /\ detector = "constructed"
    /\ dip.pc = "returned"
    /\ dip.stages = <<"capture", "ocr">>
    /\ dip.ret.x # None

\* C10: from an existing file, construction either succeeds with both the
\* template and its grayscale form loaded, which it does exactly when the
\* file decodes, or fails with a load error; no detector is constructed with
\* one of the two missing.
C10_LoadOrFail ==
    (template_file # "missing" /\ detector # "none") =>
        /\ detector = "constructed" <=> template_file = "image"
        /\ detector = "constructed" => (template /\ template_gray)
        /\ detector # "constructed" => detector = "LoadError"

\* The file decoded but its conversion to grayscale raised: a load error,
\* although self.template had been set.
C10_Witness ==
    /\ template_file = "unconvertible"
    /\ detector = "LoadError"
    /\ template
    /\ ~template_gray

\* The OCR backend was not available in the attempt: the engine is missing or
\* the recognition raised.
BackendFailed == dip.backend \in {"missing", "raised"}

\* C11: an unavailable OCR backend (engine missing, or an error raised during
\* recognition) is not fatal for the attempt: the OCR stage raises nothing and
\* returns (None, None, 0.0), detect_icon_position returns that failure result,
\* and a detect_with_retry that is running the attempt can go on: unless the
\* user interrupts, its next step starts the next attempt while attempts
\* remain and returns the exhaustion result after the last one.
C11_BackendFailureNonFatal ==
    /\ [](BackendFailed =>
            /\ dip.pc = "returned"
            /\ dip.ocr = Ret(None, None, 0)
            /\ dip.ret = Ret(None, None, 0))
    /\ []((BackendFailed /\ rty.pc = "attempting") => ENABLED RetryStep)
    /\ [][(BackendFailed /\ rty.pc = "attempting" /\ rty' # rty
             /\ rty'.pc # "interrupted") =>
            IF rty.made < rty.max_retries
            THEN /\ rty'.pc = "attempting"
                 /\ rty'.made = rty.made + 1
                 /\ dip'.pc \in {"match", "raised"}
            ELSE /\ rty'.pc = "returned"
                 /\ rty'.ret = Ret(None, None, 0)]_vars

\* The second of three attempts has ended with the engine missing; the retry
\* loop has not yet taken its next step.
C11_Witness ==
    /\ rty.pc = "attempting"
    /\ rty.max_retries = 3
    /\ rty.made = 2
    /\ dip.pc = "returned"
    /\ dip.backend = "missing"
    /\ dip.ret = Ret(None, None, 0)

\* C12: the absence of the OCR backend is distinguishable from "zero tokens
\* found": the outcome _detect_with_ocr hands to its caller when the engine is
\* missing differs from the outcome of every run in which the backend ran and
\* recognised no matching token.
C12_BackendAbsenceDistinguishable ==
    (fn.called = "ocr" /\ Backend(fn.ocr) = "missing") =>
        \A run \in OcrRuns :
            (Backend(run) = "ran" /\ CandidatesOf(run.tokens) = <<>>) =>
                fn.ret # _detect_with_ocr(run)

\* C13: detect_icon_position returns (None, None, 0.0) if detection fails:
\* whatever the template, the template confidence and use_ocr_fallback are,
\* whenever a returned coordinate is null the returned confidence is exactly 0.
C13_FailureConfidenceZero ==
    (dip.pc = "returned" /\ (dip.ret.x = None \/ dip.ret.y = None)) =>
        dip.ret.confidence = 0

\* The places (0-based) where "notepad" occurs in text, ignoring case.
NotepadAt(text) ==
    {i \in 0..(Len(text) - Len(target)) :
        Lower(SubSeq(text, i + 1, i + Len(target))) = target}

\* C14: the scorer returns exactly 1.0 for every token equal to "notepad"
\* ignoring case and exactly 0.0 for every token in which "notepad" does not
\* occur ignoring case; in an OCR run every candidate has a similarity above 0
\* and no token scoring 0.0 has become a candidate.
C14_ExactAndNoMatch ==
    /\ fn.called = "similarity" =>
          /\ Lower(fn.text) = target => fn.similarity = 1000
          /\ NotepadAt(fn.text) = {} => fn.similarity = 0
    /\ fn.called = "ocr" =>
          /\ \A j \in 1..Len(fn.candidates) : fn.candidates[j].similarity > 0
          /\ \A k \in 1..Len(fn.ocr.tokens) :
                NotepadAt(fn.ocr.tokens[k].text) = {} =>
                    \A j \in 1..Len(fn.candidates) :
                        fn.candidates[j].x #
                            fn.ocr.tokens[k].left + fn.ocr.tokens[k].width \div 2

\* An OCR run of "Calc" then "Notepad": only the second became a candidate,
\* with similarity 1.0.
C14_Witness ==
    /\ fn.called = "ocr"
    /\ Len(fn.ocr.tokens) = 2
    /\ NotepadAt(fn.ocr.tokens[1].text) = {}
    /\ Lower(fn.ocr.tokens[2].text) = target
    /\ Len(fn.candidates) = 1
    /\ fn.candidates[1].similarity = 1000

\* A token as the scorer reads it: trimmed of surrounding whitespace, in
\* lower case.
Trimmed(text) == Lower(Strip(text))

\* What follows the first Len(target) characters.
Suffix(s) == SubSeq(s, Len(target) + 1, Len(s))

HasAlnum(s) == \E k \in 1..Len(s) : IsAlnum(s[k])

WordBounded(s, i) ==
    /\ i = 0 \/ ~IsAlnum(s[i])
    /\ i + Len(target) >= Len(s) \/ ~IsAlnum(s[i + Len(target) + 1])

\* C16 as stated: every token in which "notepad" occurs, ignoring case, only
\* as a substring without word boundaries has a similarity in [0.4, 0.6).
C16_SubstringTier ==
    (/\ fn.called = "similarity"
     /\ NotepadAt(fn.text) # {}
     /\ \A i \in NotepadAt(fn.text) : ~WordBounded(fn.text, i)) =>
        /\ fn.similarity >= 400
        /\ fn.similarity < 600

\* C16, amended: every token in which "notepad" occurs, ignoring case and
\* surrounding whitespace, only as a substring without word boundaries scores
\* 0.2 ("MyNotepadTool"), or 0.1 when the token starts with "notepad"
\* ("Notepad2").
C16_SubstringLow ==
    (/\ fn.called = "similarity"
     /\ NotepadAt(Trimmed(fn.text)) # {}
     /\ \A i \in NotepadAt(Trimmed(fn.text)) : ~WordBounded(Trimmed(fn.text), i)) =>
        fn.similarity = IF StartsWith(Trimmed(fn.text), target) THEN 100 ELSE 200

\* "MyNotepadTool" has been scored 0.2.
C16_Witness ==
    /\ fn.called = "similarity"
    /\ fn.text = <<"M", "y", "N", "o", "t", "e", "p", "a", "d", "T", "o", "o", "l">>
    /\ fn.similarity = 200

\* The anchor x of the candidate made from OCR token t.
AnchorX(t) == t.left + t.width \div 2

\* C17: in every OCR run each candidate's combined score is
\* similarity * 0.7 + (raw confidence / 100) * 0.3 of the token it was made
\* from, and the run selects the candidate with the maximum combined score,
\* the first-encountered one among equals; the returned anchor is that
\* candidate's.
C17_RankerFirstMaximum ==
    fn.called = "ocr" =>
        /\ \A j \in 1..Len(fn.candidates) :
              \E k \in 1..Len(fn.ocr.tokens) :
                  /\ fn.candidates[j].x = AnchorX(fn.ocr.tokens[k])
                  /\ 10 * fn.candidates[j].combined_score =
                        7 * fn.candidates[j].similarity + 30 * fn.ocr.tokens[k].conf
        /\ (fn.best_match = <<>>) <=> (fn.candidates = <<>>)
        /\ fn.best_match # <<>> =>
              \E k \in 1..Len(fn.candidates) :
                  /\ fn.best_match[1] = fn.candidates[k]
                  /\ \A j \in 1..Len(fn.candidates) :
                        fn.candidates[j].combined_score
                            <= fn.candidates[k].combined_score
                  /\ \A j \in 1..(k - 1) :
                        fn.candidates[j].combined_score
                            < fn.candidates[k].combined_score
                  /\ fn.ret.x = fn.candidates[k].x
                  /\ fn.ret.y = fn.candidates[k].y

\* Two different candidates with the same combined score 0.35 ("Notepad++"
\* at confidence 0, "MyNotepadTool" at confidence 70, in either order): the
\* first one is selected.
C17_Witness ==
    /\ fn.called = "ocr"
    /\ Len(fn.candidates) = 2
    /\ fn.candidates[1].text # fn.candidates[2].text
    /\ fn.candidates[1].combined_score = 350
    /\ fn.candidates[2].combined_score = 350
    /\ fn.best_match = <<fn.candidates[1]>>
    /\ fn.ret.x = fn.candidates[1].x
    /\ fn.ret.x # fn.candidates[2].x

\* The largest combined score among the candidates.
TopScore(candidates) ==
    CHOOSE c \in {candidates[j].combined_score : j \in 1..Len(candidates)} :
        \A j \in 1..Len(candidates) : candidates[j].combined_score <= c

\* C18: the OCR stage returns min(best combined score, 0.9) whenever it has a
\* candidate, so no OCR result reports more than 0.9; a confidence above 0.9
\* returned by detect_icon_position or detect_with_retry is the template
\* stage's.
C18_OcrCap ==
    /\ (fn.called = "ocr" /\ fn.candidates # <<>>) =>
          /\ fn.ret.confidence = Min(TopScore(fn.candidates), 900)
          /\ fn.ret.confidence <= 900
    /\ dip.ocr.confidence <= 900
    /\ (dip.pc = "returned" /\ dip.ret.confidence > 900) =>
          /\ dip.ret = dip.tm
          /\ dip.stages[Len(dip.stages)] = "template"
    /\ (rty.pc = "returned" /\ rty.ret.confidence > 900) =>
          /\ rty.ret = dip.tm
          /\ dip.stages[Len(dip.stages)] = "template"

\* A run whose best candidate is "Notepad" read with raw confidence 100:
\* combined score 1.0, reported as 0.9.
C18_Witness ==
    /\ fn.called = "ocr"
    /\ fn.best_match # <<>>
    /\ fn.best_match[1].combined_score = 1000
    /\ fn.ret.confidence = 900

\* A score in [0, 1], in thousandths; a result not yet there has none.
UnitScore(c) == c = None \/ (0 <= c /\ c <= 1000)

\* The confidences the template matcher, the OCR stage, detect_icon_position
\* and detect_with_retry have returned are in [0, 1].
ReturnedInUnit ==
    /\ UnitScore(dip.tm.confidence)
    /\ UnitScore(dip.ocr.confidence)
    /\ UnitScore(dip.ret.confidence)
    /\ UnitScore(rty.ret.confidence)
    /\ UnitScore(fn.ret.confidence)

\* C19 as stated: each candidate's similarity, OCR-confidence field and
\* combined score and every returned confidence lie in [0, 1].  The
\* ocr_conf field is a plain number, not thousandths.
C19_AllInUnitInterval ==
    /\ \A j \in 1..Len(fn.candidates) :
          /\ UnitScore(fn.candidates[j].similarity)
          /\ 0 <= fn.candidates[j].ocr_conf /\ fn.candidates[j].ocr_conf <= 1
          /\ UnitScore(fn.candidates[j].combined_score)
    /\ ReturnedInUnit

\* C19, amended: for raw OCR confidences in 0..100 and every template-match
\* outcome, each candidate's similarity and combined score and every
\* returned confidence lie in [0, 1], while the candidate's ocr_conf field
\* holds the raw confidence, in [0, 100].
C19_ScoresBounded ==
    /\ \A j \in 1..Len(fn.candidates) :
          /\ fn.candidates[j].similarity # None
          /\ fn.candidates[j].combined_score # None
          /\ UnitScore(fn.candidates[j].similarity)
          /\ UnitScore(fn.candidates[j].combined_score)
          /\ \E k \in 1..Len(fn.ocr.tokens) :
                /\ fn.candidates[j].x = AnchorX(fn.ocr.tokens[k])
                /\ fn.candidates[j].ocr_conf = fn.ocr.tokens[k].conf
          /\ 0 <= fn.candidates[j].ocr_conf /\ fn.candidates[j].ocr_conf <= 100
    /\ ReturnedInUnit
    /\ dip.pc = "returned" => dip.ret.confidence # None
    /\ rty.pc = "returned" => rty.ret.confidence # None
    /\ fn.called = "ocr" => fn.ret.confidence # None

\* A run with two candidates read at raw confidence 100 and 0: the first has
\* the combined score 1.0 and the ocr_conf field 100.
C19_Witness ==
    /\ fn.called = "ocr"
    /\ Len(fn.candidates) = 2
    /\ fn.candidates[1].ocr_conf = 100
    /\ fn.candidates[1].combined_score = 1000
    /\ fn.candidates[2].ocr_conf = 0

\* "notepad" occurs in s as a separate word inside a longer token.
WordInside(s) ==
    /\ Len(s) > Len(target)
    /\ \E i \in NotepadAt(s) : WordBounded(s, i)

\* The first place where "notepad" occurs in s.
FirstAt(s) == CHOOSE i \in NotepadAt(s) : \A j \in NotepadAt(s) : i <= j

Tried(frame) ==
    {k \in 1..Len(scales) :
        /\ (TemplateShape[1] * scales[k]) \div 10 <= frame.shape[1]
        /\ (TemplateShape[2] * scales[k]) \div 10 <= frame.shape[2]}

\* The largest of a non-empty set of numbers.
Largest(S) == CHOOSE v \in S : \A u \in S : u <= v

\* The first tried scale whose maximum is the largest of the tried ones.
FirstBest(frame) ==
    LET top == Largest({frame.match[k].max_val : k \in Tried(frame)})
    IN  CHOOSE k \in Tried(frame) :
            /\ frame.match[k].max_val = top
            /\ \A j \in Tried(frame) : frame.match[j].max_val = top => k <= j

\* C21 as stated: the reported confidence is the maximum over the non-skipped
\* scales, and the location and scale kept are those of the first scale that
\* has it.
C21_SweepMaximum ==
    (fn.called = "template" /\ Tried(fn.frame) # {}) =>
        LET k == FirstBest(fn.frame)
        IN  /\ fn.best.confidence = fn.frame.match[k].max_val
            /\ fn.ret.confidence = fn.frame.match[k].max_val
            /\ fn.best.match = fn.frame.match[k].max_loc
            /\ fn.best.scale = scales[k]

\* C21, amended: the matcher tries the scales in the order 0.8, 1.0, 1.2, 1.5,
\* skips a scale whose resized template is wider or taller than the frame,
\* and starts from the best value 0.0 with no location: the reported
\* confidence is the larger of 0.0 and the maximum over the non-skipped
\* scales; when that maximum is above 0 the location and scale kept are those
\* of the first scale that has it, and otherwise no location is kept.
C21_SweepMaximumAboveZero ==
    fn.called = "template" =>
        /\ fn.ret.confidence = fn.best.confidence
        /\ IF Tried(fn.frame) # {}
              /\ fn.frame.match[FirstBest(fn.frame)].max_val > 0
           THEN LET k == FirstBest(fn.frame)
                IN  /\ fn.best.confidence = fn.frame.match[k].max_val
                    /\ fn.best.match = fn.frame.match[k].max_loc
                    /\ fn.best.scale = scales[k]
           ELSE /\ fn.best.confidence = 0
                /\ fn.best.match = NoMatch

\* On a frame that only fits the scales 0.8, 1.0 and 1.2, with the maxima
\* 0.7, 0.95, 0.95 (and 0.95 for the skipped 1.5): the scale 1.0 and its
\* location are kept.
C21_Witness ==
    /\ fn.called = "template"
    /\ fn.frame.shape = <<50, 50>>
    /\ fn.frame.match[1].max_val = 700
    /\ fn.frame.match[2].max_val = 950
    /\ fn.frame.match[3].max_val = 950
    /\ fn.frame.match[4].max_val = 950
    /\ fn.best.scale = 10
    /\ fn.best.match = fn.frame.match[2].max_loc
    /\ fn.best.match # fn.frame.match[1].max_loc
    /\ fn.best.confidence = 950

\* C22: the template matcher outputs an anchor if and only if its best value
\* is >= the threshold, also when every scale was skipped or none scored above
\* 0: with best >= threshold the anchor is the kept location plus half the
\* resized template's width and height (integer halves) with the best value
\* as confidence; otherwise it is (None, None) with the best value.
C22_AnchorIffAtLeastThreshold ==
    fn.called = "template" =>
        IF fn.best.confidence >= confidence_threshold
        THEN /\ fn.ret.x # None
             /\ fn.ret.y # None
             /\ fn.best.match # NoMatch
             /\ fn.ret.x = fn.best.match[1]
                             + ((TemplateShape[1] * fn.best.scale) \div 10) \div 2
             /\ fn.ret.y = fn.best.match[2]
                             + ((TemplateShape[2] * fn.best.scale) \div 10) \div 2
             /\ fn.ret.confidence = fn.best.confidence
        ELSE fn.ret = Ret(None, None, fn.best.confidence)

\* y is int(top - max(height * 1.5, 40) / 2): with n the exact value in
\* quarters of a pixel, y is n / 4 with the fraction cut off towards zero.
IsAnchorY(y, t) ==
    LET n == 4 * t.top - (IF 3 * t.height > 80 THEN 3 * t.height ELSE 80)
    IN  IF n >= 0 THEN 4 * y <= n /\ n < 4 * y + 4
        ELSE 4 * y - 4 < n /\ n <= 4 * y

\* The token can give an anchor: not empty after trimming, similarity > 0.
Qualifies(t) == Strip(t.text) # <<>> /\ NotepadAt(t.text) # {}

\* C23: in every OCR run the candidates come, one each, from the tokens that
\* are non-empty after trimming and score a similarity above 0; such a
\* token's candidate has X = left + width div 2 and Y = top - max(height *
\* 1.5, 40) / 2 cut to an integer; no other token gives a candidate, and a
\* returned anchor is a candidate's.
C23_AnchorFromCaption ==
    fn.called = "ocr" =>
        /\ \A j \in 1..Len(fn.candidates) :
              \E k \in 1..Len(fn.ocr.tokens) :
                  /\ Qualifies(fn.ocr.tokens[k])
                  /\ fn.candidates[j].similarity > 0
                  /\ fn.candidates[j].x = AnchorX(fn.ocr.tokens[k])
                  /\ IsAnchorY(fn.candidates[j].y, fn.ocr.tokens[k])
        /\ \A k \in 1..Len(fn.ocr.tokens) :
              Cardinality({j \in 1..Len(fn.candidates) :
                              fn.candidates[j].x = AnchorX(fn.ocr.tokens[k])})
                  = IF Qualifies(fn.ocr.tokens[k]) /\ Backend(fn.ocr) = "ran"
                    THEN 1 ELSE 0
        /\ fn.ret.x # None =>
              \E j \in 1..Len(fn.candidates) :
                  fn.ret.x = fn.candidates[j].x /\ fn.ret.y = fn.candidates[j].y

\* A blank token, then "Notepad" in a box at left 400, top 5, 60 wide and 31
\* high: one candidate, at x = 430 and y = int(5 - 46.5 / 2) = int(-18.25)
\* = -18.
C23_Witness ==
    /\ fn.called = "ocr"
    /\ Len(fn.ocr.tokens) = 2
    /\ fn.ocr.tokens[1].text = <<" ">>
    /\ Len(fn.candidates) = 1
    /\ fn.candidates[1].x = 430
    /\ fn.candidates[1].y = 0 - 18
    /\ fn.ret.x = 430
    /\ fn.ret.y = 0 - 18

\* The token reads exactly "notepad", ignoring case and surrounding whitespace.
IsExact(text) == Lower(Strip(text)) = target

\* C24: whenever an OCR run holds at least one exact "notepad" token, whatever
\* the raw confidences of its tokens are, the selected candidate is an exact
\* "notepad" token, and the returned anchor is that token's.
C24_ExactTokenWins ==
    (/\ fn.called = "ocr"
     /\ Backend(fn.ocr) = "ran"
     /\ \E k \in 1..Len(fn.ocr.tokens) : IsExact(fn.ocr.tokens[k].text)) =>
        /\ fn.best_match # <<>>
        /\ IsExact(fn.best_match[1].text)
        /\ \E k \in 1..Len(fn.ocr.tokens) :
              /\ IsExact(fn.ocr.tokens[k].text)
              /\ fn.ret.x = AnchorX(fn.ocr.tokens[k])

\* "Notepad++" read at raw confidence 100 before "Notepad" read at raw
\* confidence 0: the second is selected.
C24_Witness ==
    /\ fn.called = "ocr"
    /\ Len(fn.ocr.tokens) = 2
    /\ fn.ocr.tokens[1].text = <<"N", "o", "t", "e", "p", "a", "d", "+", "+">>
    /\ fn.ocr.tokens[1].conf = 100
    /\ fn.ocr.tokens[2].text = <<"N", "o", "t", "e", "p", "a", "d">>
    /\ fn.ocr.tokens[2].conf = 0
    /\ fn.best_match # <<>>
    /\ fn.best_match[1].x = AnchorX(fn.ocr.tokens[2])

\* The result detect_icon_position returned is an anchor of its OCR stage.
OcrAnchor ==
    /\ dip.pc = "returned"
    /\ dip.stages # <<>>
    /\ dip.stages[Len(dip.stages)] = "ocr"
    /\ dip.ret.x # None
    /\ dip.ret.y # None

\* C25: with the default threshold 0.7 an OCR result passes
\* validate_icon_detection only if the selected token is an exact "notepad":
\* an OCR run that selects any other token reports a confidence below 0.7,
\* whatever the raw confidences are; an OCR anchor returned by
\* detect_icon_position that passes the validation comes from an exact
\* token; and whenever main has launched from an OCR anchor, that anchor
\* comes from an exact token.
C25_OnlyExactPassesDefault ==
    /\ (fn.called = "ocr" /\ fn.best_match # <<>> /\ ~IsExact(fn.best_match[1].text)) =>
          /\ fn.ret.confidence < TEMPLATE_MATCH_THRESHOLD
          /\ ~validate_icon_detection(fn.ret.x, fn.ret.y, fn.ret.confidence,
                                      TEMPLATE_MATCH_THRESHOLD)
    /\ (/\ OcrAnchor
        /\ validate_icon_detection(dip.ret.x, dip.ret.y, dip.ret.confidence,
                                   TEMPLATE_MATCH_THRESHOLD)) =>
          IsExact(dip.best_text)
    /\ (caller = "main" /\ app.launched # <<>> /\ OcrAnchor) =>
          /\ app.launched = <<dip.ret.x, dip.ret.y, dip.ret.confidence>>
          /\ IsExact(dip.best_text)

\* main has got the anchor of "Notepad++" (read at raw confidence 96,
\* confidence 0.638) from detect_with_retry, has found it invalid and has
\* counted the post as failed without launching.
C25_Witness ==
    /\ caller = "main"
    /\ OcrAnchor
    /\ dip.best_text = <<"N", "o", "t", "e", "p", "a", "d", "+", "+">>
    /\ app.detected = dip.ret
    /\ app.detected.confidence = 638
    /\ ~app.valid
    /\ app.launched = <<>>
    /\ app.failed_saves = 1

\* C26: in main's loop every iteration that has called launch_notepad has
\* issued at least one close action (close_notepad or ensure_notepad_closed)
\* when the next iteration is about to start or the loop has ended, whichever
\* way the iteration went: failed launch, typing raised, save failed, save
\* succeeded, unexpected exception or user interrupt; and the step that starts
\* the next detection is only taken after such a close action.
C26_CloseAfterLaunch ==
    /\ []((caller = "main" /\ app.launched # <<>> /\ app.pc \in {"loop", "summary"})
            => app.closes >= 1)
    /\ []((caller = "main" /\ app.launched # <<>> /\ app.closes = 0)
            => app.pc \in {"typing", "saving", "closing"})
    /\ [][(app.launched # <<>> /\ app'.pc = "detecting" /\ app.pc # "detecting")
            => app.closes >= 1]_vars

\* The user has interrupted an iteration after its launch and before either
\* counter was incremented: the handler has issued the one close action.
C26_Witness ==
    /\ caller = "main"
    /\ app.pc = "summary"
    /\ app.interrupted
    /\ app.launched # <<>>
    /\ app.closes = 1
    /\ app.successful_saves = 0
    /\ app.failed_saves = 0

\* successful_saves + failed_saves
Counted == app.successful_saves + app.failed_saves

\* C27 as stated: between two iterations and after the loop the two counters
\* together count the posts whose iteration has completed; after the loop
\* the sum is the number of valid posts when the run was not interrupted and
\* smaller when a user interrupt broke the loop.
C27_CountersMatchCompleted ==
    (caller = "main" /\ app.pc \in {"loop", "summary"}) =>
        /\ Counted = app.done
        /\ (app.pc = "summary" /\ ~app.interrupted) => Counted = app.posts
        /\ (app.pc = "summary" /\ app.interrupted) => Counted < app.posts

\* C27, amended: each post increments at most one of the two counters, once:
\* the sum is the number of posts whose iteration has completed, plus one
\* while the close action that follows the increment of the current post is
\* running or when the user interrupted the run during it; after the loop
\* the sum is the number of valid posts when the run was not interrupted and
\* at most that number when it was, with fewer iterations completed than
\* posts.
C27_CountersTrackPosts ==
    /\ [](app.successful_saves >= 0 /\ app.failed_saves >= 0)
    /\ []((caller = "main" /\ app.pc \notin {"idle", "exit"}) =>
            /\ Counted \in {app.done, app.done + 1}
            /\ Counted = app.done + 1 => (app.pc = "closing" \/ app.interrupted)
            /\ app.pc = "closing" => Counted = app.done + 1
            /\ Counted <= app.i
            /\ app.i <= app.posts
            /\ (app.pc = "summary" /\ ~app.interrupted) =>
                  (Counted = app.posts /\ app.done = app.posts)
            /\ (app.pc = "summary" /\ app.interrupted) =>
                  (Counted <= app.posts /\ app.done < app.posts))
    /\ [][/\ app'.successful_saves - app.successful_saves \in {0, 1}
          /\ app'.failed_saves - app.failed_saves \in {0, 1}
          /\ (app'.successful_saves + app'.failed_saves) - Counted \in {0, 1}
          /\ (app'.successful_saves + app'.failed_saves) - Counted = 1
                => Counted = app.done]_vars

\* Two valid posts; the user interrupts while Notepad is being closed after
\* the second post was saved and counted: both posts are counted although the
\* run was interrupted.
C27_Witness ==
    /\ caller = "main"
    /\ app.pc = "summary"
    /\ app.interrupted
    /\ app.posts = 2
    /\ app.done = 1
    /\ app.successful_saves + app.failed_saves = 2
    /\ app.successful_saves >= 1

====
